---- MODULE Spec2Model ----
(***************************************************************************)
(* deposit(client, {wallet, vault, amount}) of index.ts: four contract     *)
(* reads (asset, balanceOf, allowance, maxDeposit), three checks, the      *)
(* encoding of deposit(amount, wallet) and a gas estimation, run by        *)
(* several concurrent invocations against one chain.  An action is one     *)
(* turn of the event loop: the code between two awaits.                    *)
(***************************************************************************)
EXTENDS Integers, Sequences, FiniteSets, TLC

\* ------------------------------------------------------------------ bounds

\* Token amounts on the chain range over 0..MaxVal.
MaxVal == 2

\* The gas figures the tests compare the estimate with.
MinBaseGas == 21000
GasUpperBound == 500000

Invocations == {"i1", "i2"}

\* Addresses are numbers, so that they can be ABI-encoded.
Wallets == {161, 162}
FundedWallets == {162}
Vaults == {176}
Tokens == {192}
Erc20s == Tokens \cup Vaults

Vals == 0 .. MaxVal
\* bigint amounts: one negative, and one above every on-chain value.
Amounts == -1 .. (MaxVal + 1)
\* What the node may answer to eth_estimateGas: more than the base cost of a
\* transaction, and as much as the vault's deposit costs.
GasValues == {MinBaseGas + 1, GasUpperBound - 1, GasUpperBound}

\* ------------------------------------------------------------------- types

DepositParams == [wallet : Wallets, vault : Vaults, amount : Amounts]

NotEnoughBalanceError ==
    [name |-> "NotEnoughBalanceError", message |-> "Not enough balance"]

MissingAllowanceError ==
    [name |-> "MissingAllowanceError", message |-> "Not enough allowance"]

AmountExceedsMaxDepositError ==
    [name |-> "AmountExceedsMaxDepositError", message |-> "Amount exceeds max deposit"]

\* What a rejected client call or a failed encoding throws: none of the three
\* classes above.  message names the call that failed.
ClientFailure(fn) == [name |-> "ClientFailure", message |-> fn]

ValidationErrors ==
    {NotEnoughBalanceError, MissingAllowanceError, AmountExceedsMaxDepositError}

NoParams == [wallet |-> 0, vault |-> 0, amount |-> 0]
Undefined == "undefined"
Pending == [kind |-> "pending"]

\* ------------------------------------------------------------------- state

VARIABLES
    vaultAsset,        \* ERC4626 asset(): vault -> token
    balances,          \* ERC20 balanceOf: contract -> owner -> amount
    allowances,        \* ERC20 allowance: contract -> owner -> spender -> amount
    maxDepositAmount,  \* TestVault _maxDepositAmount: vault -> amount
    params,            \* per invocation: the DepositParams it was called with
    pc,                \* per invocation: the await it is suspended at
    assetAddress,      \* per invocation: const assetAddress
    userBalance,       \* per invocation: const userBalance
    allowance,         \* per invocation: const allowance
    maxDeposit,        \* per invocation: const maxDeposit
    data,              \* per invocation: const data
    gas,               \* per invocation: const gas
    result,            \* per invocation: the promise deposit returned
    calls,             \* history: the capability calls issued, in order
    replies,           \* history: what each awaited call answered, in order
    thrown             \* history: the errors thrown inside the invocation

chain == <<vaultAsset, balances, allowances, maxDepositAmount>>
locals == <<assetAddress, userBalance, allowance, maxDeposit, data, gas>>
history == <<calls, replies, thrown>>
vars == <<chain, params, pc, locals, result, history>>

\* ------------------------------------------------------- the capabilities

\* TestVault.maxDeposit(address): the same cap for every receiver.
TestVaultMaxDeposit(vault, receiver) == maxDepositAmount[vault]

\* client.readContract({address, functionName, args}) when the node answers.
ReadContract(address, functionName, args) ==
    CASE functionName = "asset" -> vaultAsset[address]
      [] functionName = "balanceOf" -> balances[address][args[1]]
      [] functionName = "allowance" -> allowances[address][args[1]][args[2]]
      [] functionName = "maxDeposit" -> TestVaultMaxDeposit(address, args[1])

\* n as len bytes, most significant first.
RECURSIVE BigEndian(_, _)
BigEndian(n, len) ==
    IF len = 0 THEN <<>> ELSE Append(BigEndian(n \div 256, len - 1), n % 256)

\* The first four bytes of keccak256("deposit(uint256,address)"): 0x6e553f65.
DepositSelector == <<110, 85, 63, 101>>

\* The args of the encoded call: [amount, wallet].  (The two variants before
\* it: the vault as the receiver; the vault's cap in place of the amount.)
DepositArgsToVault(p) == <<p.amount, p.vault>>
DepositArgsCapped(p) == <<maxDepositAmount[p.vault], p.wallet>>
DepositArgs(p) == <<p.amount, p.wallet>>

\* encodeFunctionData throws on an amount that is no uint256 (every amount of
\* the model is far below 2^256, so only the sign can be wrong).
EncodableArgs(args) == args[1] >= 0

\* encodeFunctionData({abi: erc4626Abi, functionName: 'deposit', args}):
\* the selector, then each argument as a 32-byte word.
EncodeFunctionData(args) ==
    DepositSelector \o BigEndian(args[1], 32) \o BigEndian(args[2], 32)

\* ---------------------------------------------------------------- deposit

\* userBalance < amount  (before it, the comparison the wrong way round, and
\* the check left out)
BalanceCheckInverted(balance, amount) == balance > amount
BalanceCheckSkipped(balance, amount) == FALSE
BalanceCheckFails(balance, amount) == balance < amount

\* allowance < amount  (before it, the comparison the wrong way round, and
\* the check left out)
AllowanceCheckInverted(allowed, amount) == allowed > amount
AllowanceCheckSkipped(allowed, amount) == FALSE
AllowanceCheckFails(allowed, amount) == allowed < amount

\* amount > maxDeposit  (before it, the comparison the wrong way round, the
\* check left out, and the cap itself refused)
MaxDepositCheckInverted(amount, max) == amount < max
MaxDepositCheckStrict(amount, max) == amount >= max
MaxDepositCheckSkipped(amount, max) == FALSE
MaxDepositCheckFails(amount, max) == amount > max

\* return { data, from: wallet, to: vault, value: 0n, gas }  (before it, the
\* return without its gas field, and with a margin added to the estimate)
TransactionWithoutGas(d, wallet, vault, g) ==
    [data |-> d, from |-> wallet, to |-> vault, value |-> 0]
TransactionPaddedGas(d, wallet, vault, g) ==
    [data |-> d, from |-> wallet, to |-> vault, value |-> 0, gas |-> g + MinBaseGas]
Transaction(d, wallet, vault, g) ==
    [data |-> d, from |-> wallet, to |-> vault, value |-> 0, gas |-> g]

\* The async function returns: its promise is fulfilled with the value.
Fulfilled(tx) == [kind |-> "fulfilled", value |-> tx]

\* Nothing in deposit catches: an error thrown inside it rejects its promise
\* with that very error.  (Before it, a catch that rethrows every error as
\* NotEnoughBalanceError.)
RejectedAsValidation(err) == [kind |-> "rejected", reason |-> NotEnoughBalanceError]
Rejected(err) == [kind |-> "rejected", reason |-> err]

\* A const of the function body: one binding per invocation.  (Before it, a
\* binding at module scope, which all invocations share.)
BindShared(f, i, v) == [j \in DOMAIN f |-> v]
Bind(f, i, v) == [f EXCEPT ![i] = v]

\* The calls as the invocation issues them.
ReadCall(address, functionName, args) ==
    [fn |-> functionName, address |-> address, args |-> args]
EncodeCall(args) ==
    [fn |-> "encodeFunctionData", address |-> 0, args |-> args]
EstimateGasCall(wallet, vault, d) ==
    [fn |-> "estimateGas", address |-> vault,
     args |-> [account |-> wallet, to |-> vault, data |-> d, value |-> 0]]

Answer(fn, v) == [fn |-> fn, ok |-> TRUE, value |-> v]
Failure(fn) == [fn |-> fn, ok |-> FALSE, value |-> ClientFailure(fn)]

ReadAwaits == {"asset", "balanceOf", "allowance", "maxDeposit"}

\* throw err: the invocation is over.
Throw(i, err) ==
    /\ result' = [result EXCEPT ![i] = Rejected(err)]
    /\ thrown' = [thrown EXCEPT ![i] = Append(@, err)]
    /\ pc' = [pc EXCEPT ![i] = "done"]

Init ==
    /\ vaultAsset \in [Vaults -> Tokens]
    /\ \E b \in [Wallets \ FundedWallets -> Vals] :
         balances = [c \in Erc20s |-> [w \in Wallets |->
             IF c \in Vaults THEN 0
             ELSE IF w \in FundedWallets THEN MaxVal ELSE b[w]]]
    /\ \E a \in [Wallets \ FundedWallets -> Vals] :
         allowances = [c \in Erc20s |-> [w \in Wallets |-> [v \in Vaults |->
             IF c \in Vaults THEN 0
             ELSE IF w \in FundedWallets THEN MaxVal ELSE a[w]]]]
    /\ maxDepositAmount \in [Vaults -> Vals]
    /\ params = [i \in Invocations |-> NoParams]
    /\ pc = [i \in Invocations |-> "start"]
    /\ assetAddress = [i \in Invocations |-> Undefined]
    /\ userBalance = [i \in Invocations |-> Undefined]
    /\ allowance = [i \in Invocations |-> Undefined]
    /\ maxDeposit = [i \in Invocations |-> Undefined]
    /\ data = [i \in Invocations |-> Undefined]
    /\ gas = [i \in Invocations |-> Undefined]
    /\ result = [i \in Invocations |-> Pending]
    /\ calls = [i \in Invocations |-> <<>>]
    /\ replies = [i \in Invocations |-> <<>>]
    /\ thrown = [i \in Invocations |-> <<>>]

\* deposit(client, p) is called: it runs up to its first await, the asset read.
Call(i) ==
    /\ pc[i] = "start"
    /\ \E p \in DepositParams :
         /\ params' = [params EXCEPT ![i] = p]
         /\ calls' = [calls EXCEPT ![i] = Append(@, ReadCall(p.vault, "asset", <<>>))]
    /\ pc' = [pc EXCEPT ![i] = "asset"]
    /\ UNCHANGED <<chain, locals, result, replies, thrown>>

\* The asset read answers: bind assetAddress, issue the balanceOf read.
AssetReturned(i) ==
    /\ pc[i] = "asset"
    /\ LET p == params[i]
           v == ReadContract(p.vault, "asset", <<>>)
       IN  /\ replies' = [replies EXCEPT ![i] = Append(@, Answer("asset", v))]
           /\ assetAddress' = Bind(assetAddress, i, v)
           /\ calls' = [calls EXCEPT ![i] =
                  Append(@, ReadCall(v, "balanceOf", <<p.wallet>>))]
    /\ pc' = [pc EXCEPT ![i] = "balanceOf"]
    /\ UNCHANGED <<chain, params, userBalance, allowance, maxDeposit, data, gas,
                   result, thrown>>

\* The balanceOf read answers: bind userBalance, check it, issue the allowance read.
BalanceReturned(i) ==
    /\ pc[i] = "balanceOf"
    /\ LET p == params[i]
           v == ReadContract(assetAddress[i], "balanceOf", <<p.wallet>>)
       IN  /\ replies' = [replies EXCEPT ![i] = Append(@, Answer("balanceOf", v))]
           /\ userBalance' = Bind(userBalance, i, v)
           /\ IF BalanceCheckFails(v, p.amount)
              THEN /\ Throw(i, NotEnoughBalanceError)
                   /\ UNCHANGED calls
              ELSE /\ calls' = [calls EXCEPT ![i] = Append(@,
                          ReadCall(assetAddress[i], "allowance", <<p.wallet, p.vault>>))]
                   /\ pc' = [pc EXCEPT ![i] = "allowance"]
                   /\ UNCHANGED <<result, thrown>>
    /\ UNCHANGED <<chain, params, assetAddress, allowance, maxDeposit, data, gas>>

\* The allowance read answers: bind allowance, check it, issue the maxDeposit read.
AllowanceReturned(i) ==
    /\ pc[i] = "allowance"
    /\ LET p == params[i]
           v == ReadContract(assetAddress[i], "allowance", <<p.wallet, p.vault>>)
       IN  /\ replies' = [replies EXCEPT ![i] = Append(@, Answer("allowance", v))]
           /\ allowance' = Bind(allowance, i, v)
           /\ IF AllowanceCheckFails(v, p.amount)
              THEN /\ Throw(i, MissingAllowanceError)
                   /\ UNCHANGED calls
              ELSE /\ calls' = [calls EXCEPT ![i] = Append(@,
                          ReadCall(p.vault, "maxDeposit", <<p.wallet>>))]
                   /\ pc' = [pc EXCEPT ![i] = "maxDeposit"]
                   /\ UNCHANGED <<result, thrown>>
    /\ UNCHANGED <<chain, params, assetAddress, userBalance, maxDeposit, data, gas>>

\* The maxDeposit read answers: bind maxDeposit, check it, encode the call
\* (synchronously) and issue the gas estimation.
MaxDepositReturned(i) ==
    /\ pc[i] = "maxDeposit"
    /\ LET p == params[i]
           v == ReadContract(p.vault, "maxDeposit", <<p.wallet>>)
           args == DepositArgs(p)
           d == EncodeFunctionData(args)
       IN  /\ replies' = [replies EXCEPT ![i] = Append(@, Answer("maxDeposit", v))]
           /\ maxDeposit' = Bind(maxDeposit, i, v)
           /\ IF MaxDepositCheckFails(p.amount, v)
              THEN /\ Throw(i, AmountExceedsMaxDepositError)
                   /\ UNCHANGED <<calls, data>>
              ELSE IF ~EncodableArgs(args)
              THEN /\ Throw(i, ClientFailure("encodeFunctionData"))
                   /\ calls' = [calls EXCEPT ![i] = Append(@, EncodeCall(args))]
                   /\ UNCHANGED data
              ELSE /\ data' = Bind(data, i, d)
                   /\ calls' = [calls EXCEPT ![i] =
                          @ \o <<EncodeCall(args), EstimateGasCall(p.wallet, p.vault, d)>>]
                   /\ pc' = [pc EXCEPT ![i] = "estimateGas"]
                   /\ UNCHANGED <<result, thrown>>
    /\ UNCHANGED <<chain, params, assetAddress, userBalance, allowance, gas>>

\* The gas estimation answers g: bind gas and return the transaction.
EstimateGasReturned(i) ==
    /\ pc[i] = "estimateGas"
    /\ \E g \in GasValues :
         /\ replies' = [replies EXCEPT ![i] = Append(@, Answer("estimateGas", g))]
         /\ gas' = Bind(gas, i, g)
         /\ result' = [result EXCEPT ![i] =
                Fulfilled(Transaction(data[i], params[i].wallet, params[i].vault, g))]
    /\ pc' = [pc EXCEPT ![i] = "done"]
    /\ UNCHANGED <<chain, params, assetAddress, userBalance, allowance, maxDeposit,
                   data, calls, thrown>>

\* An awaited client call rejects (the node is unreachable, the call reverts):
\* the await throws what the client threw.
AwaitRejected(i) ==
    /\ pc[i] \in ReadAwaits \cup {"estimateGas"}
    /\ replies' = [replies EXCEPT ![i] = Append(@, Failure(pc[i]))]
    /\ Throw(i, ClientFailure(pc[i]))
    /\ UNCHANGED <<chain, params, locals, calls>>

Next ==
    \E i \in Invocations :
        \/ Call(i)
        \/ AssetReturned(i)
        \/ BalanceReturned(i)
        \/ AllowanceReturned(i)
        \/ MaxDepositReturned(i)
        \/ EstimateGasReturned(i)
        \/ AwaitRejected(i)

Spec == Init /\ [][Next]_vars

\* ------------------------------------------------- the chain moves meanwhile

\* The invocations that run while the chain moves.
RaceInvocations == {"i1"}

\* A deposit for wallet w is under way.  Of the transactions on the chain only
\* those are followed that a running deposit can see: the ones on its wallet
\* and on the vault.
Running(w) ==
    \E i \in RaceInvocations : pc[i] \notin {"start", "done"} /\ params[i].wallet = w

\* TestToken.mint(to, amount), amounts kept within 0 .. MaxVal.
Mint(to, amount) ==
    /\ Running(to)
    /\ \E t \in Tokens :
         /\ balances[t][to] + amount <= MaxVal
         /\ balances' = [balances EXCEPT ![t][to] = @ + amount]
    /\ UNCHANGED <<vaultAsset, allowances, maxDepositAmount,
                   params, pc, locals, result, history>>

\* TestToken.burn(from, amount): reverts beyond the balance.
Burn(from, amount) ==
    /\ Running(from)
    /\ \E t \in Tokens :
         /\ balances[t][from] >= amount
         /\ balances' = [balances EXCEPT ![t][from] = @ - amount]
    /\ UNCHANGED <<vaultAsset, allowances, maxDepositAmount,
                   params, pc, locals, result, history>>

\* approve(spender, value) sent by owner to the token.
Approve(owner, spender, value) ==
    /\ Running(owner)
    /\ \E t \in Tokens :
         /\ allowances[t][owner][spender] # value
         /\ allowances' = [allowances EXCEPT ![t][owner][spender] = value]
    /\ UNCHANGED <<vaultAsset, balances, maxDepositAmount,
                   params, pc, locals, result, history>>

\* TestVault.setMaxDeposit(maxAmount).
SetMaxDeposit(vault, maxAmount) ==
    /\ \E w \in Wallets : Running(w)
    /\ maxDepositAmount[vault] # maxAmount
    /\ maxDepositAmount' = [maxDepositAmount EXCEPT ![vault] = maxAmount]
    /\ UNCHANGED <<vaultAsset, balances, allowances,
                   params, pc, locals, result, history>>

\* The fixture before any mint or approve for the other wallets: they hold
\* and have approved nothing.
InitRace ==
    /\ Init
    /\ \A t \in Tokens, w \in Wallets \ FundedWallets :
          /\ balances[t][w] = 0
          /\ \A v \in Vaults : allowances[t][w][v] = 0

NextRace ==
    \/ \E i \in RaceInvocations :
        \/ Call(i)
        \/ AssetReturned(i)
        \/ BalanceReturned(i)
        \/ AllowanceReturned(i)
        \/ MaxDepositReturned(i)
        \/ EstimateGasReturned(i)
        \/ AwaitRejected(i)
    \/ \E w \in Wallets, x \in 1 .. MaxVal : Mint(w, x)
    \/ \E w \in Wallets, x \in 1 .. MaxVal : Burn(w, x)
    \/ \E w \in Wallets, v \in Vaults, x \in Vals : Approve(w, v, x)
    \/ \E v \in Vaults, x \in Vals : SetMaxDeposit(v, x)

SpecRace == InitRace /\ [][NextRace]_vars

\* ------------------------------------------------------------ the claims

Done(i) == pc[i] = "done"
Rejects(i) == result[i].kind = "rejected"
Fulfils(i) == result[i].kind = "fulfilled"

\* The chain's values for a request.
OnChainBalance(p) == balances[vaultAsset[p.vault]][p.wallet]
OnChainAllowance(p) == allowances[vaultAsset[p.vault]][p.wallet][p.vault]
OnChainMaxDeposit(p) == maxDepositAmount[p.vault]

\* The first n awaited calls of invocation i all answered.
Answered(i, n) ==
    /\ Len(replies[i]) >= n
    /\ \A k \in 1 .. n : replies[i][k].ok

\* The invocation was rejected by the failure of one of the calls fns.
FailedIn(i, fns) ==
    /\ Rejects(i)
    /\ \E fn \in fns : result[i].reason = ClientFailure(fn)

RECURSIVE FromBigEndian(_)
FromBigEndian(bytes) ==
    IF bytes = <<>> THEN 0
    ELSE 256 * FromBigEndian(SubSeq(bytes, 1, Len(bytes) - 1)) + bytes[Len(bytes)]

\* Call data read back as the vault reads it.
DecodeDeposit(d) ==
    [length |-> Len(d),
     selector |-> SubSeq(d, 1, 4),
     assets |-> FromBigEndian(SubSeq(d, 5, 36)),
     receiver |-> FromBigEndian(SubSeq(d, 37, 68))]

DepositOf(amount, wallet) ==
    [length |-> 68, selector |-> <<110, 85, 63, 101>>,
     assets |-> amount, receiver |-> wallet]

\* C1: a finished invocation whose amount exceeds the wallet's balance of the
\* vault's asset was rejected with NotEnoughBalanceError once the asset and
\* balanceOf reads answered, whatever the allowance and maxDeposit are; it
\* can end otherwise only by the failure of one of those two reads.
C1_InsufficientBalance ==
    \A i \in Invocations :
        (Done(i) /\ params[i].amount > OnChainBalance(params[i])) =>
            /\ Rejects(i)
            /\ IF Answered(i, 2)
               THEN result[i].reason = NotEnoughBalanceError
               ELSE FailedIn(i, {"asset", "balanceOf"})

C1_Witness ==
    \E i \in Invocations :
        /\ Done(i)
        /\ params[i].amount > OnChainBalance(params[i])
        /\ params[i].amount > OnChainAllowance(params[i])
        /\ params[i].amount > OnChainMaxDeposit(params[i])
        /\ Rejects(i)
        /\ result[i].reason = NotEnoughBalanceError

\* C2: a finished invocation with amount <= balance and amount > allowance
\* was rejected with MissingAllowanceError once the asset, balanceOf and
\* allowance reads answered, whatever maxDeposit is; it can end otherwise only
\* by the failure of one of those three reads.
C2_InsufficientAllowance ==
    \A i \in Invocations :
        (/\ Done(i)
         /\ params[i].amount <= OnChainBalance(params[i])
         /\ params[i].amount > OnChainAllowance(params[i])) =>
            /\ Rejects(i)
            /\ IF Answered(i, 3)
               THEN result[i].reason = MissingAllowanceError
               ELSE FailedIn(i, {"asset", "balanceOf", "allowance"})

C2_Witness ==
    \E i \in Invocations :
        /\ Done(i)
        /\ params[i].amount <= OnChainBalance(params[i])
        /\ params[i].amount > OnChainAllowance(params[i])
        /\ params[i].amount > OnChainMaxDeposit(params[i])
        /\ Rejects(i)
        /\ result[i].reason = MissingAllowanceError

\* C3: a finished invocation with amount <= balance, amount <= allowance and
\* amount > maxDeposit(wallet) was rejected with AmountExceedsMaxDepositError
\* once the four reads answered; it can end otherwise only by the failure of
\* one of the reads.
C3_DepositLimitExceeded ==
    \A i \in Invocations :
        (/\ Done(i)
         /\ params[i].amount <= OnChainBalance(params[i])
         /\ params[i].amount <= OnChainAllowance(params[i])
         /\ params[i].amount > OnChainMaxDeposit(params[i])) =>
            /\ Rejects(i)
            /\ IF Answered(i, 4)
               THEN result[i].reason = AmountExceedsMaxDepositError
               ELSE FailedIn(i, ReadAwaits)

C3_Witness ==
    \E i \in Invocations :
        /\ Done(i)
        /\ params[i].amount <= OnChainBalance(params[i])
        /\ params[i].amount <= OnChainAllowance(params[i])
        /\ params[i].amount > OnChainMaxDeposit(params[i])
        /\ Rejects(i)
        /\ result[i].reason = AmountExceedsMaxDepositError

\* The three preconditions of a request.
Preconditions(p) ==
    /\ p.amount <= OnChainBalance(p)
    /\ p.amount <= OnChainAllowance(p)
    /\ p.amount <= OnChainMaxDeposit(p)

\* The descriptor of C4 for invocation i: from the wallet, to the vault, value
\* 0, the data of deposit(amount, wallet), and the gas that the estimation
\* of exactly that call answered.
DescriptorOf(i, tx) ==
    LET p == params[i] IN
    /\ tx.from = p.wallet
    /\ tx.to = p.vault
    /\ tx.value = 0
    /\ DecodeDeposit(tx.data) = DepositOf(p.amount, p.wallet)
    /\ Len(calls[i]) = 6
    /\ calls[i][6].fn = "estimateGas"
    /\ calls[i][6].args =
           [account |-> p.wallet, to |-> p.vault, data |-> tx.data, value |-> 0]
    /\ replies[i][5] = [fn |-> "estimateGas", ok |-> TRUE, value |-> tx.gas]

\* C4: a finished invocation whose request meets the three preconditions and
\* whose four reads and gas estimation answered returned a descriptor, and a
\* returned descriptor has from = wallet, to = vault, value = 0, data = the
\* encoding of deposit(amount, wallet) and gas = what the estimation of that
\* call (from wallet, to vault, that data, value 0) answered.
C4_Descriptor ==
    \A i \in Invocations :
        /\ (Done(i) /\ Preconditions(params[i]) /\ Answered(i, 5)) => Fulfils(i)
        /\ Fulfils(i) => DescriptorOf(i, result[i].value)

C4_Witness ==
    \E i \in Invocations :
        /\ Done(i)
        /\ Preconditions(params[i])
        /\ Answered(i, 5)
        /\ Fulfils(i)
        /\ params[i].amount > 0
        /\ result[i].value.gas = GasUpperBound - 1

DescriptorFields == {"data", "from", "to", "value", "gas"}

\* A complete descriptor: the five fields, each set.
Complete(tx) ==
    /\ DOMAIN tx = DescriptorFields
    /\ Len(tx.data) > 0
    /\ tx.from \in Wallets
    /\ tx.to \in Vaults
    /\ tx.value = 0
    /\ tx.gas \in GasValues

ClientFailures ==
    {ClientFailure(fn) : fn \in ReadAwaits \cup {"encodeFunctionData", "estimateGas"}}

\* C5: an invocation has no outcome until it ends, and it ends in exactly one:
\* the three checks passed, nothing was thrown and a descriptor with all five
\* fields set is returned; or exactly one error was thrown, a validation error
\* or a failure of a capability call, the promise is rejected with it, and
\* nothing of a descriptor is returned.
C5_ExactlyOneOutcome ==
    \A i \in Invocations :
        /\ ~Done(i) => (result[i] = Pending /\ thrown[i] = <<>>)
        /\ Done(i) =>
            \/ /\ Fulfils(i)
               /\ DOMAIN result[i] = {"kind", "value"}
               /\ Complete(result[i].value)
               /\ thrown[i] = <<>>
               /\ Preconditions(params[i])
            \/ /\ Rejects(i)
               /\ DOMAIN result[i] = {"kind", "reason"}
               /\ thrown[i] = <<result[i].reason>>
               /\ result[i].reason \in ValidationErrors \cup ClientFailures

C5_Witness ==
    \E i, j \in Invocations :
        /\ Done(i) /\ Fulfils(i)
        /\ Done(j) /\ Rejects(j) /\ result[j].reason = ClientFailure("estimateGas")
        /\ data[j] # Undefined

\* The names of the calls invocation i issued, in order.
Issued(i) == [k \in 1 .. Len(calls[i]) |-> calls[i][k].fn]
Positions(i, fn) == {k \in 1 .. Len(calls[i]) : calls[i][k].fn = fn}

\* C6: when a capability call fails, the invocation ends there, rejected with
\* the very failure the call gave: not one of the three validation errors and
\* not a descriptor; and no capability call is issued twice by an invocation
\* (nothing is retried).
C6_FailuresPropagate ==
    \A i \in Invocations :
        /\ \A k \in 1 .. Len(replies[i]) :
              ~replies[i][k].ok =>
                  /\ k = Len(replies[i])
                  /\ Done(i)
                  /\ result[i] = [kind |-> "rejected", reason |-> replies[i][k].value]
                  /\ result[i].reason \notin ValidationErrors
                  /\ calls[i][Len(calls[i])].fn = replies[i][k].fn
        /\ \A k \in Positions(i, "encodeFunctionData") :
              calls[i][k].args[1] < 0 =>
                  /\ k = Len(calls[i])
                  /\ result[i] = [kind |-> "rejected",
                                  reason |-> ClientFailure("encodeFunctionData")]
        /\ \A k, l \in 1 .. Len(calls[i]) : calls[i][k].fn = calls[i][l].fn => k = l

C6_Witness ==
    \E i, j \in Invocations :
        /\ Done(i)
        /\ Len(replies[i]) = 3
        /\ ~replies[i][3].ok
        /\ params[i].amount > OnChainAllowance(params[i])
        /\ result[i].reason = ClientFailure("allowance")
        /\ Done(j)
        /\ result[j] = [kind |-> "rejected", reason |-> ClientFailure("encodeFunctionData")]

SaneGas(g) == g > MinBaseGas /\ g < GasUpperBound

NoCallFailed(i) == \A k \in 1 .. Len(replies[i]) : replies[i][k].ok

\* C8: two finished invocations of the same request on the same chain, none of
\* whose client calls failed, end alike: both rejected with the same error, or
\* both returning descriptors with the same data, from, to and value.  The
\* data of any returned descriptor is the encoding of (amount, wallet) and of
\* nothing else: two descriptors for the same amount and wallet carry the same
\* data whatever gas was estimated for them.
C8_Idempotent ==
    \A i, j \in Invocations :
        /\ (/\ Done(i) /\ Done(j)
            /\ params[i] = params[j]
            /\ NoCallFailed(i) /\ NoCallFailed(j)) =>
               /\ result[i].kind = result[j].kind
               /\ Rejects(i) => result[i].reason = result[j].reason
               /\ Fulfils(i) =>
                    /\ result[i].value.data = result[j].value.data
                    /\ result[i].value.from = result[j].value.from
                    /\ result[i].value.to = result[j].value.to
                    /\ result[i].value.value = result[j].value.value
        /\ Fulfils(i) =>
               DecodeDeposit(result[i].value.data) =
                   DepositOf(params[i].amount, params[i].wallet)
        /\ (/\ Fulfils(i) /\ Fulfils(j)
            /\ params[i].amount = params[j].amount
            /\ params[i].wallet = params[j].wallet) =>
               result[i].value.data = result[j].value.data

C8_Witness ==
    \E i, j \in Invocations :
        /\ i # j
        /\ params[i] = params[j]
        /\ Fulfils(i) /\ Fulfils(j)
        /\ params[i].amount < OnChainMaxDeposit(params[i])
        /\ result[i].value.gas # result[j].value.gas
        /\ result[i].value.data = result[j].value.data

\* The k-th answer of rs; a call that was never awaited counts as failed.
ReplyAt(rs, k) ==
    IF k <= Len(rs) THEN rs[k] ELSE [fn |-> "none", ok |-> FALSE, value |-> 0]

\* deposit(p) run alone on the chain, its k-th awaited call answering or
\* failing as rs[k] says.
Alone(p, rs) ==
    LET no(e) == [kind |-> "rejected", reason |-> e]
        failed(k) == ~ReplyAt(rs, k).ok
    IN  IF failed(1) THEN no(ClientFailure("asset"))
        ELSE IF failed(2) THEN no(ClientFailure("balanceOf"))
        ELSE IF OnChainBalance(p) < p.amount THEN no(NotEnoughBalanceError)
        ELSE IF failed(3) THEN no(ClientFailure("allowance"))
        ELSE IF OnChainAllowance(p) < p.amount THEN no(MissingAllowanceError)
        ELSE IF failed(4) THEN no(ClientFailure("maxDeposit"))
        ELSE IF p.amount > OnChainMaxDeposit(p) THEN no(AmountExceedsMaxDepositError)
        ELSE IF p.amount < 0 THEN no(ClientFailure("encodeFunctionData"))
        ELSE IF failed(5) THEN no(ClientFailure("estimateGas"))
        ELSE [kind |-> "fulfilled",
              value |-> [data |-> <<110, 85, 63, 101>> \o [k \in 1 .. 31 |-> 0]
                                  \o <<p.amount>> \o [k \in 1 .. 31 |-> 0] \o <<p.wallet>>,
                         from |-> p.wallet, to |-> p.vault, value |-> 0,
                         gas |-> ReplyAt(rs, 5).value]]

\* C9: under every interleaving of the invocations' steps on an unchanged
\* chain, a finished invocation has the outcome it would have had alone, with
\* the same answers to its own calls: nothing another invocation does shows
\* in it.
C9_Independent ==
    \A i \in Invocations :
        Done(i) => result[i] = Alone(params[i], replies[i])

C9_Witness ==
    \E i, j \in Invocations :
        /\ i # j
        /\ Fulfils(i)
        /\ pc[j] = "done"
        /\ Fulfils(j)
        /\ params[i] # params[j]
        /\ params[i].amount # params[j].amount
        /\ params[i].wallet # params[j].wallet
        /\ replies[i][5].value # replies[j][5].value

\* C10: an invocation encodes and estimates only after its balanceOf,
\* allowance and maxDeposit reads were issued and answered values the amount
\* does not exceed; it estimates only after it encoded; and one that ended
\* with a validation error neither encoded nor estimated.
C10_EncodeAfterChecks ==
    \A i \in Invocations :
        LET enc == Positions(i, "encodeFunctionData")
            est == Positions(i, "estimateGas")
        IN  /\ \A e \in enc \cup est :
                  /\ \A fn \in {"balanceOf", "allowance", "maxDeposit"} :
                        \E k \in Positions(i, fn) : k < e
                  /\ Answered(i, 4)
                  /\ replies[i][2].fn = "balanceOf"
                  /\ replies[i][3].fn = "allowance"
                  /\ replies[i][4].fn = "maxDeposit"
                  /\ \A k \in 2 .. 4 : params[i].amount <= replies[i][k].value
            /\ \A g \in est : \E e \in enc : e < g
            /\ (Rejects(i) /\ result[i].reason \in ValidationErrors) =>
                  (enc = {} /\ est = {})

C10_Witness ==
    \E i, j \in Invocations :
        /\ Issued(i) = <<"asset", "balanceOf", "allowance", "maxDeposit",
                         "encodeFunctionData", "estimateGas">>
        /\ Rejects(j)
        /\ result[j].reason = AmountExceedsMaxDepositError
        /\ Issued(j) = <<"asset", "balanceOf", "allowance", "maxDeposit">>

ReadOrder == <<"asset", "balanceOf", "allowance", "maxDeposit">>

\* The reads invocation i issued, in order.
ReadsIssued(i) == SelectSeq(Issued(i), LAMBDA fn : fn \in ReadAwaits)

\* C11: the reads an invocation has issued are always the first ones of
\* asset, balanceOf, allowance, maxDeposit, in that order and before any other
\* call; once the balanceOf read answered less than the amount, neither the
\* allowance nor the maxDeposit read is issued and the invocation ended with
\* NotEnoughBalanceError, and once the allowance read answered less than the
\* amount, the maxDeposit read is not issued and it ended with
\* MissingAllowanceError.
C11_ReadOrder ==
    \A i \in Invocations :
        /\ \E n \in 0 .. 4 :
              /\ ReadsIssued(i) = SubSeq(ReadOrder, 1, n)
              /\ SubSeq(Issued(i), 1, n) = SubSeq(ReadOrder, 1, n)
        /\ (Answered(i, 2) /\ replies[i][2].value < params[i].amount) =>
              /\ Issued(i) = <<"asset", "balanceOf">>
              /\ result[i] = [kind |-> "rejected", reason |-> NotEnoughBalanceError]
        /\ (Answered(i, 3) /\ replies[i][3].value < params[i].amount) =>
              /\ Issued(i) = <<"asset", "balanceOf", "allowance">>
              /\ result[i] = [kind |-> "rejected", reason |-> MissingAllowanceError]

C11_Witness ==
    \E i, j \in Invocations :
        /\ result[i] = [kind |-> "rejected", reason |-> NotEnoughBalanceError]
        /\ params[i].amount > OnChainAllowance(params[i])
        /\ Issued(i) = <<"asset", "balanceOf">>
        /\ result[j] = [kind |-> "rejected", reason |-> MissingAllowanceError]
        /\ params[j].amount > OnChainMaxDeposit(params[j])
        /\ Issued(j) = <<"asset", "balanceOf", "allowance">>

\* The request is at the boundary of every check, or asks for nothing.
AtBoundary(p) ==
    \/ /\ p.amount = OnChainBalance(p)
       /\ p.amount = OnChainAllowance(p)
       /\ p.amount = OnChainMaxDeposit(p)
    \/ p.amount = 0

\* C12: a request whose amount equals the balance, the allowance and
\* maxDeposit, or whose amount is 0 (whatever the three values are), passes
\* every check: its invocation never ends with a validation error, issues the
\* next call after each read that answers, and returns a descriptor once the
\* reads and the gas estimation answered.
C12_InclusiveBoundary ==
    \A i \in Invocations :
        (pc[i] # "start" /\ AtBoundary(params[i])) =>
            /\ Rejects(i) => result[i].reason \notin ValidationErrors
            /\ \A n \in 1 .. 4 : Answered(i, n) => Len(calls[i]) > n
            /\ (Done(i) /\ Answered(i, 5)) => Fulfils(i)

C12_Witness ==
    \E i, j \in Invocations :
        /\ Fulfils(i)
        /\ params[i].amount > 0
        /\ params[i].amount = OnChainBalance(params[i])
        /\ params[i].amount = OnChainAllowance(params[i])
        /\ params[i].amount = OnChainMaxDeposit(params[i])
        /\ Fulfils(j)
        /\ params[j].amount = 0
        /\ OnChainBalance(params[j]) > 0
        /\ OnChainAllowance(params[j]) > 0
        /\ OnChainMaxDeposit(params[j]) > 0

CheckedReads == {"balanceOf", "allowance", "maxDeposit"}

\* Each checked value is read at most once, exactly once before a descriptor
\* is returned, and the descriptor's invocation holds three snapshots, the
\* answers of its reads, none of which the amount exceeds.
ReadOnceAndChecked ==
    \A i \in Invocations :
        /\ \A fn \in CheckedReads : Cardinality(Positions(i, fn)) <= 1
        /\ Fulfils(i) =>
              /\ \A fn \in CheckedReads : Cardinality(Positions(i, fn)) = 1
              /\ Answered(i, 4)
              /\ userBalance[i] = replies[i][2].value
              /\ allowance[i] = replies[i][3].value
              /\ maxDeposit[i] = replies[i][4].value
              /\ params[i].amount <= userBalance[i]
              /\ params[i].amount <= allowance[i]
              /\ params[i].amount <= maxDeposit[i]

\* A step in which a checked read of i answers binds the chain's value of
\* that moment, and i goes on only if the amount does not exceed it; a
\* snapshot once taken is not replaced.
SnapshotStep ==
    \A i \in Invocations :
        LET p == params[i] IN
        /\ (pc[i] = "balanceOf" /\ Answered(i, 2)') =>
              /\ userBalance'[i] = OnChainBalance(p)
              /\ pc'[i] = "allowance" => p.amount <= OnChainBalance(p)
        /\ (pc[i] = "allowance" /\ Answered(i, 3)') =>
              /\ allowance'[i] = OnChainAllowance(p)
              /\ pc'[i] = "maxDeposit" => p.amount <= OnChainAllowance(p)
        /\ (pc[i] = "maxDeposit" /\ Answered(i, 4)') =>
              /\ maxDeposit'[i] = OnChainMaxDeposit(p)
              /\ pc'[i] = "estimateGas" => p.amount <= OnChainMaxDeposit(p)
        /\ Answered(i, 2) => userBalance'[i] = userBalance[i]
        /\ Answered(i, 3) => allowance'[i] = allowance[i]
        /\ Answered(i, 4) => maxDeposit'[i] = maxDeposit[i]

\* C13: while balances, allowances and the vault's cap change under a running
\* deposit, each of the three values is read once and never again, and a
\* returned descriptor means that the amount did not exceed the balance when
\* the balance was read, the allowance when the allowance was read, and
\* maxDeposit when maxDeposit was read: each check against its own snapshot.
C13_OwnSnapshots == []ReadOnceAndChecked /\ [][SnapshotStep]_vars

\* A descriptor is returned although, by now, the chain meets none of the
\* three preconditions, and the three snapshots were taken in three
\* different states of the chain.
C13_Witness ==
    \E i \in Invocations :
        /\ Fulfils(i)
        /\ params[i].amount > OnChainBalance(params[i])
        /\ params[i].amount > OnChainAllowance(params[i])
        /\ params[i].amount > OnChainMaxDeposit(params[i])
        /\ userBalance[i] # allowance[i]
        /\ allowance[i] # maxDeposit[i]

====
